---- MODULE Spec2Model ----
(***************************************************************************)
(* State-machine model of the OXRS_Black facade (src/src/OXRS_Black.cpp):  *)
(* schema composition for adoption, MQTT config/command dispatch, the      *)
(* begin()/loop() lifecycle and the status/telemetry publish helpers.      *)
(*                                                                         *)
(* Every operation of the facade is one atomic action (the firmware is     *)
(* single threaded: callbacks run synchronously inside loop()).  Each      *)
(* action records in `trace` the calls it made on its collaborators, in    *)
(* program order, and in `ret` what it returned, so that ordering and      *)
(* result properties are state predicates.                                 *)
(***************************************************************************)
EXTENDS Integers, Sequences, FiniteSets, TLC

(***************************************************************************)
(* JSON values (ArduinoJson variants).  One record shape for every kind:   *)
(* t is the kind, n the number (or 0/1 for a boolean), s the string, m the *)
(* member map of an object.                                                *)
(***************************************************************************)
EmptyMap == [k \in {} |-> 0]

JNull == [t |-> "null", n |-> 0, s |-> "", m |-> EmptyMap]

JInt(i) == [t |-> "int", n |-> i, s |-> "", m |-> EmptyMap]

JBool(b) == [t |-> "bool", n |-> IF b THEN 1 ELSE 0, s |-> "", m |-> EmptyMap]

JStr(v) == [t |-> "str", n |-> 0, s |-> v, m |-> EmptyMap]

JObj(f) == [t |-> "obj", n |-> 0, s |-> "", m |-> f]

IsObject(j) == j.t = "obj"

IsNull(j) == j.t = "null"

\* json.containsKey(k): the member exists, whatever its value.
ContainsKey(j, k) == IsObject(j) /\ k \in DOMAIN j.m

\* json[k] read access: the member, or null when there is none.
Get(j, k) == IF ContainsKey(j, k) THEN j.m[k] ELSE JNull

\* variant.as<bool>(): booleans and numbers by value, null false, anything
\* else (strings, objects) true.
AsBool(j) ==
  CASE j.t = "bool" -> j.n = 1
    [] j.t = "int"  -> j.n # 0
    [] j.t = "null" -> FALSE
    [] OTHER        -> TRUE

\* variant.as<int>(): numbers and booleans by value, anything else 0.
AsInt(j) == IF j.t \in {"int", "bool"} THEN j.n ELSE 0

\* variant.as<uint8_t>(): an integer that fits 8 bits, anything else 0.
AsUint8(j) == IF j.t = "int" /\ j.n >= 0 /\ j.n <= 255 THEN j.n ELSE 0

\* dst[k] = v on a variant: a null becomes an object first; a value that is
\* neither null nor an object has no members and the assignment is dropped.
SetMember(dst, k, v) ==
  IF IsObject(dst) \/ IsNull(dst)
  THEN JObj([x \in (DOMAIN dst.m) \cup {k} |-> IF x = k THEN v ELSE dst.m[x]])
  ELSE dst

\* _mergeJson(dst, src).  An object source is merged member by member: a
\* member whose destination value is truthy is merged recursively, any
\* other is assigned; a source that is no object replaces the destination.
\* The members of an object have distinct keys, so the iteration order of
\* the loop does not matter.
RECURSIVE MergeJson(_, _)
MergeJson(dst, src) ==
  IF IsObject(src)
  THEN IF DOMAIN src.m = {} THEN dst
       ELSE IF IsObject(dst) \/ IsNull(dst)
       THEN JObj([k \in (DOMAIN dst.m) \cup (DOMAIN src.m) |->
                    IF k \in DOMAIN src.m
                    THEN IF AsBool(Get(dst, k))
                         THEN MergeJson(dst.m[k], src.m[k])
                         ELSE src.m[k]
                    ELSE dst.m[k]])
       ELSE dst
  ELSE src

(***************************************************************************)
(* Text formatting (sprintf_P).                                            *)
(***************************************************************************)
Digits == <<"0", "1", "2", "3", "4", "5", "6", "7", "8", "9">>

HexUpper == Digits \o <<"A", "B", "C", "D", "E", "F">>

HexLower == Digits \o <<"a", "b", "c", "d", "e", "f">>

\* %d of a non-negative number.
RECURSIVE DecStr(_)
DecStr(n) == IF n < 10 THEN Digits[n + 1] ELSE DecStr(n \div 10) \o Digits[(n % 10) + 1]

\* A mutant of Pad3: the field is padded with zeros.
Pad3Zero(n) ==
  LET d == DecStr(n)
  IN  IF Len(d) = 1 THEN "00" \o d ELSE IF Len(d) = 2 THEN "0" \o d ELSE d

\* %3d: right aligned in a field of three, padded with spaces.
Pad3(n) ==
  LET d == DecStr(n)
  IN  IF Len(d) = 1 THEN "  " \o d ELSE IF Len(d) = 2 THEN " " \o d ELSE d

\* %02X and %02x of a byte.
Hex2Upper(b) == HexUpper[(b \div 16) + 1] \o HexUpper[(b % 16) + 1]

Hex2Lower(b) == HexLower[(b \div 16) + 1] \o HexLower[(b % 16) + 1]

\* "%02X:%02X:%02X:%02X:%02X:%02X"
MacDisplay(mac) ==
  Hex2Upper(mac[1]) \o ":" \o Hex2Upper(mac[2]) \o ":" \o Hex2Upper(mac[3]) \o ":" \o
  Hex2Upper(mac[4]) \o ":" \o Hex2Upper(mac[5]) \o ":" \o Hex2Upper(mac[6])

(***************************************************************************)
(* Firmware identity: the build-time macros the library compiles against.  *)
(***************************************************************************)
FW_NAME == "OXRS-AC-StateMonitor-ESP32-FW"

FW_SHORT_NAME == "State Monitor"

FW_MAKER == "Austins Creations"

FW_VERSION == "1.0.0"

JSON_SCHEMA_VERSION == "http://json-schema.org/draft-07/schema#"

(***************************************************************************)
(* Adoption info builders.                                                 *)
(***************************************************************************)
\* _getFirmwareJson: json["firmware"] (built without FW_GITHUB_URL).
FirmwareJson ==
  JObj([name      |-> JStr(FW_NAME),
        shortName |-> JStr(FW_SHORT_NAME),
        maker     |-> JStr(FW_MAKER),
        version   |-> JStr(FW_VERSION)])

\* _getSystemJson: json["system"], the counters read live from the platform.
SystemJson(env) ==
  JObj([heapUsedBytes         |-> JInt(env.heapSize),
        heapFreeBytes         |-> JInt(env.freeHeap),
        heapMaxAllocBytes     |-> JInt(env.maxAllocHeap),
        flashChipSizeBytes    |-> JInt(env.flashChipSize),
        sketchSpaceUsedBytes  |-> JInt(env.sketchSize),
        sketchSpaceTotalBytes |-> JInt(env.freeSketchSpace),
        fileSystemUsedBytes   |-> JInt(env.fsUsed),
        fileSystemTotalBytes  |-> JInt(env.fsTotal)])

\* _getNetworkJson: json["network"], from the Ethernet library's MAC and IP.
NetworkJson(mac, env) ==
  JObj([mode |-> JStr("ethernet"),
        ip   |-> JStr(env.ip),
        mac  |-> JStr(MacDisplay(mac))])

\* The integer LCD property written into the config schema.
LcdProperty(title, description, maximum) ==
  JObj([title       |-> JStr(title),
        description |-> JStr(description),
        type        |-> JStr("integer"),
        minimum     |-> JInt(0),
        maximum     |-> JInt(maximum)])

ActiveBrightnessPercentSchema ==
  LcdProperty("LCD Active Brightness (%)",
    "Brightness of the LCD when active (defaults to 100%). Must be a number between 0 and 100.",
    100)

InactiveBrightnessPercentSchema ==
  LcdProperty("LCD Inactive Brightness (%)",
    "Brightness of the LCD when in-active (defaults to 10%). Must be a number between 0 and 100.",
    100)

ActiveDisplaySecondsSchema ==
  LcdProperty("LCD Active Display Timeout (seconds)",
    "How long the LCD remains 'active' after an event is detected (defaults to 10 seconds, setting to 0 disables the timeout). Must be a number between 0 and 600 (i.e. 10 minutes).",
    600)

EventDisplaySecondsSchema ==
  LcdProperty("LCD Event Display Timeout (seconds)",
    "How long the last event is displayed on the LCD (defaults to 3 seconds, setting to 0 disables the timeout). Must be a number between 0 and 600 (i.e. 10 minutes).",
    600)

RestartSchema == JObj([title |-> JStr("Restart"), type |-> JStr("boolean")])

\* A mutant of ToObject: an existing member is merged with, not cleared.
ToObjectMerging(props, k, obj) == SetMember(props, k, MergeJson(Get(props, k), obj))

\* A mutant of ToObject: an existing member is left as it is.
ToObjectIfAbsent(props, k, obj) == IF ContainsKey(props, k) THEN props ELSE SetMember(props, k, obj)

\* properties[k].to<JsonObject>() followed by the member assignments: the
\* member k is cleared and becomes exactly the object obj.
ToObject(props, k, obj) == SetMember(props, k, obj)

\* The schema envelope: $schema, title, type and the properties.
SchemaJson(properties) ==
  JObj(("$schema" :> JStr(JSON_SCHEMA_VERSION)) @@ ("title" :> JStr(FW_SHORT_NAME)) @@
       ("type" :> JStr("object")) @@ ("properties" :> properties))

\* _getConfigSchemaJson: json["configSchema"].  The firmware schema (if any)
\* is merged into the empty properties object, then the four LCD properties
\* are written.
ConfigSchemaJson(fw) ==
  LET p0 == JObj(EmptyMap)
      p1 == IF ~IsNull(fw) THEN MergeJson(p0, fw) ELSE p0
      p2 == ToObject(p1, "activeBrightnessPercent", ActiveBrightnessPercentSchema)
      p3 == ToObject(p2, "inactiveBrightnessPercent", InactiveBrightnessPercentSchema)
      p4 == ToObject(p3, "activeDisplaySeconds", ActiveDisplaySecondsSchema)
      p5 == ToObject(p4, "eventDisplaySeconds", EventDisplaySecondsSchema)
  IN  SchemaJson(p5)

\* A mutant of CommandSchemaJson: the firmware schema is merged in after
\* the platform's `restart` property is written.
CommandSchemaJsonFirmwareLast(fw) ==
  LET p0 == JObj(EmptyMap)
      p1 == ToObject(p0, "restart", RestartSchema)
      p2 == IF ~IsNull(fw) THEN MergeJson(p1, fw) ELSE p1
  IN  SchemaJson(p2)

\* _getCommandSchemaJson: json["commandSchema"].
CommandSchemaJson(fw) ==
  LET p0 == JObj(EmptyMap)
      p1 == IF ~IsNull(fw) THEN MergeJson(p0, fw) ELSE p0
      p2 == ToObject(p1, "restart", RestartSchema)
  IN  SchemaJson(p2)

\* _apiAdopt: the adoption info built into an empty document.
ApiAdopt(cfg, cmd, mac, env) ==
  JObj([firmware      |-> FirmwareJson,
        system        |-> SystemJson(env),
        network       |-> NetworkJson(mac, env),
        configSchema  |-> ConfigSchemaJson(cfg),
        commandSchema |-> CommandSchemaJson(cmd)])

(***************************************************************************)
(* The environment: hardware identity, persisted settings, live readings,  *)
(* and the inputs the firmware and the broker supply.                      *)
(***************************************************************************)
\* Base (WiFi) MAC addresses of the chip; the low byte of the second and of
\* the third wraps when 3 is added, the third below a byte that is 0xFF.
BaseMacs ==
  {<<170, 187, 204, 221, 238, 240>>, <<36, 10, 196, 0, 1, 254>>, <<0, 17, 34, 51, 255, 253>>}

\* The MQTT client id stored in the REST API's settings file ("" when none).
PersistedClientIds == {"", "rack-kitchen"}

\* A board: its base MAC and its settings file.
Boards == [mac : BaseMacs, persisted : PersistedClientIds]

\* Live platform readings taken while adoption info is built.
EnvSamples ==
  {[heapSize |-> 327680, freeHeap |-> 201344, maxAllocHeap |-> 110580,
    flashChipSize |-> 4194304, sketchSize |-> 901120, freeSketchSpace |-> 1310720,
    fsUsed |-> 8192, fsTotal |-> 1441792, ip |-> "192.168.1.50"],
   [heapSize |-> 327680, freeHeap |-> 188016, maxAllocHeap |-> 98292,
    flashChipSize |-> 4194304, sketchSize |-> 901120, freeSketchSpace |-> 1310720,
    fsUsed |-> 12288, fsTotal |-> 1441792, ip |-> "0.0.0.0"]}

\* The environment sample standing for readings nobody takes.
NoReading == CHOOSE e \in EnvSamples : e.ip = "0.0.0.0"

\* The address a successful DHCP exchange of begin() leases.
LeasedIp == "192.168.1.50"

NULL == ""

\* The (config, command) callback pairs firmware passes to begin().
CallbackPairs == {<<NULL, NULL>>, <<"fwConfigA", "fwCommandA">>, <<"fwConfigB", "fwCommandB">>}

\* What begin() meets on the board: drawHeader's return code (the four it
\* logs) and whether DHCP obtains a lease.
BeginOutcomes == {<<"LCD_INFO_LOGO_FROM_SPIFFS", TRUE>>, <<"LCD_INFO_LOGO_FROM_PROGMEM", FALSE>>,
                  <<"LCD_INFO_LOGO_DEFAULT", TRUE>>, <<"LCD_ERR_NO_LOGO", FALSE>>}

Property(type) == JObj([type |-> JStr(type)])

\* Firmware schema fragments handed to setConfigSchema: the empty one,
\* plain firmware properties (nested, and a scalar), and one that itself
\* defines platform keys (as an object with other type and bounds and an
\* extra sub-key, and as a scalar).
FwConfigSchemas ==
  {JObj(EmptyMap),
   JObj([foo |-> Property("string"),
         bar |-> JObj([type |-> JStr("object"),
                       properties |-> JObj([depth |-> Property("integer")])]),
         count |-> JInt(0)]),
   JObj([activeBrightnessPercent |-> JObj([type |-> JStr("string"), maximum |-> JInt(50),
                                           default |-> JInt(7)]),
         eventDisplaySeconds |-> JInt(5),
         baz |-> Property("boolean")])}

\* Firmware schema fragments handed to setCommandSchema: plain firmware
\* properties, and one that itself defines `restart`.
FwCommandSchemas ==
  {JObj([foo |-> Property("string")]),
   JObj([restart |-> JObj([type |-> JStr("string"), enum |-> JStr("now")]),
         baz |-> Property("boolean")])}

\* Config payloads arriving on the config topic: platform keys together
\* with a firmware-only key, platform keys alone, a firmware-only key alone.
ConfigPayloads ==
  {JObj([activeBrightnessPercent |-> JInt(80), mySetting |-> JInt(42)]),
   JObj([inactiveBrightnessPercent |-> JInt(20), activeDisplaySeconds |-> JInt(60),
         eventDisplaySeconds |-> JInt(5)]),
   JObj([mySetting |-> JInt(42)])}

\* Command payloads arriving on the command topic.
CommandPayloads ==
  {JObj([restart |-> JBool(TRUE), foo |-> JInt(1)]),
   JObj([restart |-> JBool(TRUE)]),
   JObj([restart |-> JBool(FALSE), foo |-> JInt(1)]),
   JObj([foo |-> JInt(1)])}

\* What _mqtt.receive makes of an inbound frame: a config or a command
\* payload handed on, or a frame it rejects.
InboundMessages ==
  {[kind |-> "config", json |-> j] : j \in ConfigPayloads} \cup
  {[kind |-> "command", json |-> j] : j \in CommandPayloads} \cup
  {[kind |-> k, json |-> JNull] : k \in {"MQTT_RECEIVE_ZERO_LENGTH", "MQTT_RECEIVE_JSON_ERROR"}}

\* The PubSubClient states _mqttDisconnected is called with.
DisconnectStates ==
  {"MQTT_CONNECTION_TIMEOUT", "MQTT_CONNECTION_LOST", "MQTT_CONNECT_FAILED",
   "MQTT_DISCONNECTED", "MQTT_CONNECT_BAD_PROTOCOL", "MQTT_CONNECT_BAD_CLIENT_ID",
   "MQTT_CONNECT_UNAVAILABLE", "MQTT_CONNECT_BAD_CREDENTIALS", "MQTT_CONNECT_UNAUTHORIZED"}

NoMessage == [kind |-> "none", json |-> JNull]

\* What one _mqtt.loop() call may do: nothing, complete a connect, report a
\* failed or lost connection, or deliver one inbound frame.
MqttActivities ==
  {[kind |-> "idle", state |-> "", msg |-> NoMessage],
   [kind |-> "connected", state |-> "", msg |-> NoMessage]} \cup
  {[kind |-> "disconnected", state |-> st, msg |-> NoMessage] : st \in DisconnectStates} \cup
  {[kind |-> "message", state |-> "", msg |-> msg] : msg \in InboundMessages}

\* What one _api.loop() call may serve: nothing, or an adopt request.
RestActivities == {"idle", "adopt"}

\* Status payloads handed to publishStatus: the index with type and/or
\* event (equal and different), an index that does not fit a byte, no
\* index at all, and type/event strings of a length that reaches the end
\* of the event buffer (31, 32 and 43 characters of text).
StatusPayloads ==
  {JObj([index |-> JInt(7), type |-> JStr("button"), event |-> JStr("button")]),
   JObj([index |-> JInt(12), type |-> JStr("button"), event |-> JStr("press")]),
   JObj([index |-> JInt(300), type |-> JStr("button")]),
   JObj([index |-> JInt(7), event |-> JStr("press")]),
   JObj([index |-> JInt(255)]),
   JObj([type |-> JStr("button"), event |-> JStr("press")]),
   JObj([index |-> JInt(1), type |-> JStr("abcdefghijklmnopqrstuvwxy")]),
   JObj([index |-> JInt(1), type |-> JStr("abcdefghijklmnopqrstuvwxyz")]),
   JObj([index |-> JInt(7), type |-> JStr("temperature-sensor"),
         event |-> JStr("threshold-exceeded")])}

\* Telemetry payloads handed to publishTelemetry.
TelemetryPayloads ==
  {JObj([temperature |-> JInt(21)]),
   JObj([index |-> JInt(7), type |-> JStr("button")])}

(***************************************************************************)
(* Calls made on the collaborators, as recorded in `trace`.                *)
(***************************************************************************)
Ev(o) == [op |-> o, who |-> NULL, arg |-> JNull]

EvA(o, a) == [op |-> o, who |-> NULL, arg |-> a]

\* A firmware callback `cb` invoked with `json`.
EvCb(cb, json) == [op |-> "callback", who |-> cb, arg |-> json]

\* _mqtt.receive handed the inbound frame `msg`.
EvRx(msg) == [op |-> "mqtt.receive", who |-> msg.kind, arg |-> msg.json]

Log(text) == EvA("logger.println", JStr(text))

VARIABLES
  phase,              \* "constructed" (begin not called), "running", "reset"
  baseMac,            \* the chip's base MAC (hardware)
  persistedClientId,  \* client id in the REST API's settings file
  link,               \* Ethernet.linkStatus() == LinkON
  onConfig,           \* _onConfig
  onCommand,          \* _onCommand
  fwConfigSchema,     \* _fwConfigSchema
  fwCommandSchema,    \* _fwCommandSchema
  lcd,                \* the values last given to the LCD's four setters
  ethMac,             \* the MAC the Ethernet library was started with
  clientId,           \* the MQTT client id in effect
  mqttConnected,      \* the MQTT client holds a broker connection
  logTopic,           \* the topic the logger publishes to
  lastConfigPayload,  \* history: payload of the last setConfigSchema call
  lastCommandPayload, \* history: payload of the last setCommandSchema call
  configDropped,      \* history: the last setConfigSchema call found a stored
                      \* property that its payload does not have
  firstBegin,         \* history: the callbacks passed to the first begin() since
                      \* boot, <<>> before it
  prevAdopt,          \* history: the last adoption build before the last
                      \* operation: what it read and what it produced
  op,                 \* the operation that produced this state, and its input
  trace,              \* the collaborator calls that operation made, in order
  ret                 \* what it returned: "none", "true" or "false"

vars == <<phase, baseMac, persistedClientId, link, onConfig, onCommand, fwConfigSchema,
          fwCommandSchema, lcd, ethMac, clientId, mqttConnected, logTopic,
          lastConfigPayload, lastCommandPayload, configDropped, firstBegin, prevAdopt, op, trace, ret>>

hardware == <<baseMac, persistedClientId>>

Op(name, arg) == [name |-> name, arg |-> arg]

\* The LCD's settings before any config message (the defaults the schema
\* descriptions document).
DefaultBrightnessOn == 100

DefaultBrightnessDim == 10

DefaultOnTimeDisplay == 10

DefaultOnTimeEvent == 3

LcdDefaults ==
  [brightnessOn |-> DefaultBrightnessOn, brightnessDim |-> DefaultBrightnessDim,
   onTimeDisplay |-> DefaultOnTimeDisplay, onTimeEvent |-> DefaultOnTimeEvent]

ZeroMac == <<0, 0, 0, 0, 0, 0>>

\* The platform readings of a loop() call, as recorded with the operation.
EnvJson(env) ==
  JObj([heapSize |-> JInt(env.heapSize), freeHeap |-> JInt(env.freeHeap),
        maxAllocHeap |-> JInt(env.maxAllocHeap), flashChipSize |-> JInt(env.flashChipSize),
        sketchSize |-> JInt(env.sketchSize), freeSketchSpace |-> JInt(env.freeSketchSpace),
        fsUsed |-> JInt(env.fsUsed), fsTotal |-> JInt(env.fsTotal), ip |-> JStr(env.ip)])

\* No adoption build so far (`out` is null).  `kept` tells whether the
\* record of adoption builds is kept in this run at all.
NoAdopt ==
  [kept |-> TRUE, cfg |-> JNull, cmd |-> JNull, mac |-> ZeroMac, env |-> JNull,
   lcd |-> LcdDefaults, out |-> JNull]

\* The record of adoption builds after the last operation: if that was a
\* loop() call that built adoption info, what it read (the schema
\* fragments, the MAC, the readings), the LCD settings at the time and what
\* it produced; a reset clears the record.
Remember ==
  LET built == {trace[i].arg : i \in {j \in DOMAIN trace :
                                        trace[j].op \in {"api.adopt", "mqtt.publishAdopt"}}}
  IN  IF ~prevAdopt.kept THEN prevAdopt
      ELSE IF phase = "reset" THEN NoAdopt
      ELSE IF op.name = "loop" /\ built # {}
      THEN [kept |-> TRUE, cfg |-> fwConfigSchema, cmd |-> fwCommandSchema, mac |-> ethMac,
            env |-> op.arg, lcd |-> lcd, out |-> CHOOSE a \in built : TRUE]
      ELSE prevAdopt

\* The module-scope objects as constructed at boot.
Boot ==
  /\ onConfig = NULL
  /\ onCommand = NULL
  /\ fwConfigSchema = JNull
  /\ fwCommandSchema = JNull
  /\ lcd = LcdDefaults
  /\ ethMac = ZeroMac
  /\ clientId = ""
  /\ mqttConnected = FALSE
  /\ logTopic = "log"
  /\ lastConfigPayload = JNull
  /\ lastCommandPayload = JNull
  /\ configDropped = FALSE
  /\ firstBegin = <<>>

InitIn(D) ==
  /\ phase = "constructed"
  /\ \E b \in D.boards : baseMac = b.mac /\ persistedClientId = b.persisted
  /\ link \in BOOLEAN
  /\ Boot
  /\ prevAdopt = [NoAdopt EXCEPT !.kept = D.adoptionHistory]
  /\ op = Op("OXRS_Black", JNull)
  /\ trace = <<>>
  /\ ret = "none"

\* The device resets (ESP.restart(), or a crash): the running program ends
\* here, with `trace` holding what it did up to that point.
ResetTo(o, tr) ==
  /\ phase' = "reset"
  /\ op' = o
  /\ prevAdopt' = Remember
  /\ trace' = tr
  /\ ret' = "none"
  /\ UNCHANGED <<hardware, link, onConfig, onCommand, fwConfigSchema, fwCommandSchema, lcd,
                 ethMac, clientId, mqttConnected, logTopic, lastConfigPayload,
                 lastCommandPayload, configDropped, firstBegin>>

\* After a reset the firmware starts again: the module-scope objects are
\* constructed anew.
PowerOn ==
  /\ phase = "reset"
  /\ phase' = "constructed"
  /\ onConfig' = NULL
  /\ onCommand' = NULL
  /\ fwConfigSchema' = JNull
  /\ fwCommandSchema' = JNull
  /\ lcd' = LcdDefaults
  /\ ethMac' = ZeroMac
  /\ clientId' = ""
  /\ mqttConnected' = FALSE
  /\ logTopic' = "log"
  /\ lastConfigPayload' = JNull
  /\ lastCommandPayload' = JNull
  /\ configDropped' = FALSE
  /\ firstBegin' = <<>>
  /\ op' = Op("OXRS_Black", JNull)
  /\ prevAdopt' = Remember
  /\ trace' = <<>>
  /\ ret' = "none"
  /\ UNCHANGED <<hardware, link>>

\* The Ethernet cable is plugged or unplugged.
LinkChange ==
  /\ phase # "reset"
  /\ link' = ~link
  /\ op' = Op("linkChange", JNull)
  /\ prevAdopt' = Remember
  /\ trace' = <<>>
  /\ ret' = "none"
  /\ UNCHANGED <<phase, hardware, onConfig, onCommand, fwConfigSchema, fwCommandSchema, lcd,
                 ethMac, clientId, mqttConnected, logTopic, lastConfigPayload,
                 lastCommandPayload, configDropped, firstBegin>>

\* A mutant of StoreSchema: the document is not cleared before the merge.
StoreSchemaNoClear(doc, json) == MergeJson(doc, json)

\* setConfigSchema / setCommandSchema on the document `doc`: clear it, then
\* merge the payload into it.
StoreSchema(doc, json) == MergeJson(JNull, json)

SetConfigSchema(json) ==
  /\ phase # "reset"
  /\ fwConfigSchema' = StoreSchema(fwConfigSchema, json)
  /\ lastConfigPayload' = json
  /\ configDropped' = (DOMAIN fwConfigSchema.m \ DOMAIN json.m # {})
  /\ op' = Op("setConfigSchema", json)
  /\ prevAdopt' = Remember
  /\ trace' = <<>>
  /\ ret' = "none"
  /\ UNCHANGED <<phase, hardware, link, onConfig, onCommand, fwCommandSchema, lcd, ethMac,
                 clientId, mqttConnected, logTopic, lastCommandPayload, firstBegin>>

SetCommandSchema(json) ==
  /\ phase # "reset"
  /\ fwCommandSchema' = StoreSchema(fwCommandSchema, json)
  /\ lastCommandPayload' = json
  /\ op' = Op("setCommandSchema", json)
  /\ prevAdopt' = Remember
  /\ trace' = <<>>
  /\ ret' = "none"
  /\ UNCHANGED <<phase, hardware, link, onConfig, onCommand, fwConfigSchema, lcd, ethMac,
                 clientId, mqttConnected, logTopic, lastConfigPayload, configDropped, firstBegin>>

(***************************************************************************)
(* begin(): the four initialisation steps.  Each takes and returns the     *)
(* context c = [trace, ethMac, clientId] it works on.                      *)
(***************************************************************************)
\* A mutant of EthernetMac: the addition carries into the byte before.
EthernetMacCarry(base) ==
  [base EXCEPT ![6] = (base[6] + 3) % 256,
               ![5] = (base[5] + ((base[6] + 3) \div 256)) % 256]

\* mac[5] += 3 on a byte: the low byte wraps, nothing carries.
EthernetMac(base) == [base EXCEPT ![6] = (base[6] + 3) % 256]

\* "%02x%02x%02x" of mac[3], mac[4], mac[5].
DefaultClientId(mac) == Hex2Lower(mac[4]) \o Hex2Lower(mac[5]) \o Hex2Lower(mac[6])

\* _initialiseScreen
InitialiseScreen(c, logoCode) ==
  [c EXCEPT !.trace = @ \o
     <<Ev("screen.begin"), Ev("screen.drawHeader"),
       Log(CASE logoCode = "LCD_INFO_LOGO_FROM_SPIFFS"  -> "[black] logo loaded from SPIFFS"
             [] logoCode = "LCD_INFO_LOGO_FROM_PROGMEM" -> "[black] logo loaded from PROGMEM"
             [] logoCode = "LCD_INFO_LOGO_DEFAULT"      -> "[black] no logo found, using default OXRS logo"
             [] logoCode = "LCD_ERR_NO_LOGO"            -> "[black] no logo found")>>]

\* _initialiseNetwork: derive the MAC, reset the Wiznet chip, run DHCP.
InitialiseNetwork(c, base, dhcpOk) ==
  LET mac == EthernetMac(base)
  IN  [c EXCEPT
         !.ethMac = mac,
         !.trace = @ \o
           <<Log("[black] ethernet mac address: " \o MacDisplay(mac)),
             Ev("Ethernet.init"),
             EvA("digitalWrite", JInt(1)), EvA("delay", JInt(250)),
             EvA("digitalWrite", JInt(0)), EvA("delay", JInt(50)),
             EvA("digitalWrite", JInt(1)), EvA("delay", JInt(350)),
             EvA("Ethernet.begin", JStr(MacDisplay(mac))),
             Log("[black] ip address: " \o (IF dhcpOk THEN LeasedIp ELSE "0.0.0.0"))>>]

\* _initialiseMqtt: default client id from the MAC, callbacks registered.
InitialiseMqtt(c) ==
  LET id == DefaultClientId(c.ethMac)
  IN  [c EXCEPT
         !.clientId = id,
         !.trace = @ \o
           <<EvA("mqtt.setClientId", JStr(id)), Ev("mqtt.onConnected"),
             Ev("mqtt.onDisconnected"), Ev("mqtt.onConfig"), Ev("mqtt.onCommand"),
             Ev("mqttClient.setCallback")>>]

\* _initialiseRestApi: _api.begin() loads the MQTT settings stored in file,
\* which replace the ones set so far; then the adopt callback and the server.
InitialiseRestApi(c, persisted) ==
  [c EXCEPT
     !.clientId = IF persisted # "" THEN persisted ELSE @,
     !.trace = @ \o <<EvA("api.begin", JStr(persisted)), Ev("api.onAdopt"), Ev("server.begin")>>]

\* A mutant of BeginSteps: the REST API is initialised before MQTT.
BeginStepsRestFirst(c, base, persisted, logoCode, dhcpOk) ==
  InitialiseMqtt(
    InitialiseRestApi(
      InitialiseNetwork(InitialiseScreen(c, logoCode), base, dhcpOk), persisted))

\* The body of begin() after the callbacks are stored: screen, network,
\* MQTT, REST API.
BeginSteps(c, base, persisted, logoCode, dhcpOk) ==
  InitialiseRestApi(
    InitialiseMqtt(
      InitialiseNetwork(InitialiseScreen(c, logoCode), base, dhcpOk)), persisted)

\* A mutant of StoreCallback: a callback, once stored, is kept.
StoreCallbackOnce(stored, passed) == IF stored # NULL THEN stored ELSE passed

\* "_onConfig = config; _onCommand = command;": the callback passed to
\* begin() takes the place of the stored one.
StoreCallback(stored, passed) == passed

Begin(config, command, logoCode, dhcpOk) ==
  /\ phase # "reset"
  /\ LET c0 == [trace |-> <<EvA("logger.println", JObj([firmware |-> FirmwareJson]))>>,
                ethMac |-> ethMac, clientId |-> clientId]
         c  == BeginSteps(c0, baseMac, persistedClientId, logoCode, dhcpOk)
     IN  /\ trace' = c.trace
         /\ ethMac' = c.ethMac
         /\ clientId' = c.clientId
  /\ onConfig' = StoreCallback(onConfig, config)
  /\ onCommand' = StoreCallback(onCommand, command)
  /\ firstBegin' = IF firstBegin = <<>> THEN <<config, command>> ELSE firstBegin
  /\ phase' = "running"
  /\ op' = Op("begin", JObj([config |-> JStr(config), command |-> JStr(command)]))
  /\ prevAdopt' = Remember
  /\ ret' = "none"
  /\ UNCHANGED <<hardware, link, fwConfigSchema, fwCommandSchema, lcd, mqttConnected, logTopic,
                 lastConfigPayload, lastCommandPayload, configDropped>>

(***************************************************************************)
(* MQTT callbacks.  Each takes and returns the context                      *)
(* d = [trace, lcd, connected, logTopic, restarted] of the loop() call it  *)
(* runs in.                                                                *)
(***************************************************************************)
\* A mutant of ApplyLcdKey: the setter is called whether or not the key
\* is there.
ApplyLcdKeyAlways(d, json, key, field, setter) ==
  [d EXCEPT !.lcd[field] = AsInt(Get(json, key)),
            !.trace = Append(@, EvA(setter, JInt(AsInt(Get(json, key)))))]

\* One "if (json.containsKey(key)) setter(json[key].as<int>())" of _mqttConfig.
ApplyLcdKey(d, json, key, field, setter) ==
  IF ContainsKey(json, key)
  THEN [d EXCEPT !.lcd[field] = AsInt(Get(json, key)),
                 !.trace = Append(@, EvA(setter, JInt(AsInt(Get(json, key)))))]
  ELSE d

\* "if (cb) { cb(json); }"
PassOn(d, cb, json) == IF cb # NULL THEN [d EXCEPT !.trace = Append(@, EvCb(cb, json))] ELSE d

\* A mutant of MqttConfig: the firmware callback runs before the LCD keys
\* are applied.
MqttConfigCallbackFirst(d, json, cb) ==
  LET d0 == PassOn(d, cb, json)
      d1 == ApplyLcdKey(d0, json, "activeBrightnessPercent", "brightnessOn", "screen.setBrightnessOn")
      d2 == ApplyLcdKey(d1, json, "inactiveBrightnessPercent", "brightnessDim", "screen.setBrightnessDim")
      d3 == ApplyLcdKey(d2, json, "activeDisplaySeconds", "onTimeDisplay", "screen.setOnTimeDisplay")
  IN  ApplyLcdKey(d3, json, "eventDisplaySeconds", "onTimeEvent", "screen.setOnTimeEvent")

\* _mqttConfig: the LCD keys present in the payload, then the firmware
\* config callback with the same payload.
MqttConfig(d, json, cb) ==
  LET d1 == ApplyLcdKey(d, json, "activeBrightnessPercent", "brightnessOn", "screen.setBrightnessOn")
      d2 == ApplyLcdKey(d1, json, "inactiveBrightnessPercent", "brightnessDim", "screen.setBrightnessDim")
      d3 == ApplyLcdKey(d2, json, "activeDisplaySeconds", "onTimeDisplay", "screen.setOnTimeDisplay")
      d4 == ApplyLcdKey(d3, json, "eventDisplaySeconds", "onTimeEvent", "screen.setOnTimeEvent")
  IN  PassOn(d4, cb, json)

\* A mutant of MqttCommand: the restart is requested but the handler goes
\* on to the firmware callback.
MqttCommandFallsThrough(d, json, cb) ==
  IF ContainsKey(json, "restart") /\ AsBool(Get(json, "restart"))
  THEN PassOn([d EXCEPT !.trace = Append(@, Ev("ESP.restart"))], cb, json)
  ELSE PassOn(d, cb, json)

\* _mqttCommand: ESP.restart() does not return, so with restart true the
\* handler ends there; otherwise the firmware command callback runs.
MqttCommand(d, json, cb) ==
  IF ContainsKey(json, "restart") /\ AsBool(Get(json, "restart"))
  THEN [d EXCEPT !.trace = Append(@, Ev("ESP.restart")), !.restarted = TRUE]
  ELSE PassOn(d, cb, json)

\* _mqttCallback: pulse the RX indicator, hand the frame to _mqtt.receive
\* (which calls back into _mqttConfig / _mqttCommand), log what it rejects.
MqttCallback(d, msg, cfgCb, cmdCb) ==
  LET d1 == [d EXCEPT !.trace = @ \o <<Ev("screen.triggerMqttRxLed"), EvRx(msg)>>]
  IN  CASE msg.kind = "config"  -> MqttConfig(d1, msg.json, cfgCb)
        [] msg.kind = "command" -> MqttCommand(d1, msg.json, cmdCb)
        [] msg.kind = "MQTT_RECEIVE_ZERO_LENGTH" ->
             [d1 EXCEPT !.trace = Append(@, Log("[black] empty mqtt payload received"))]
        [] msg.kind = "MQTT_RECEIVE_JSON_ERROR" ->
             [d1 EXCEPT !.trace = Append(@, Log("[black] failed to deserialise mqtt json payload"))]

\* _mqtt.getLogTopic(): the log topic of the client id in effect.
GetLogTopic(id) == "log/" \o id

\* _mqttConnected: set the log topic, publish the adoption info, log.
MqttConnectedCb(d, id, adopt) ==
  [d EXCEPT !.connected = TRUE,
            !.logTopic = GetLogTopic(id),
            !.trace = @ \o <<EvA("logger.setTopic", JStr(GetLogTopic(id))),
                            EvA("mqtt.publishAdopt", adopt),
                            Log("[black] mqtt connected")>>]

\* _mqttDisconnected: log the reason.
MqttDisconnectedCb(d, state) ==
  [d EXCEPT !.connected = FALSE,
            !.trace = Append(@, Log(
              CASE state = "MQTT_CONNECTION_TIMEOUT"      -> "[black] mqtt connection timeout"
                [] state = "MQTT_CONNECTION_LOST"         -> "[black] mqtt connection lost"
                [] state = "MQTT_CONNECT_FAILED"          -> "[black] mqtt connect failed"
                [] state = "MQTT_DISCONNECTED"            -> "[black] mqtt disconnected"
                [] state = "MQTT_CONNECT_BAD_PROTOCOL"    -> "[black] mqtt bad protocol"
                [] state = "MQTT_CONNECT_BAD_CLIENT_ID"   -> "[black] mqtt bad client id"
                [] state = "MQTT_CONNECT_UNAVAILABLE"     -> "[black] mqtt unavailable"
                [] state = "MQTT_CONNECT_BAD_CREDENTIALS" -> "[black] mqtt bad credentials"
                [] state = "MQTT_CONNECT_UNAUTHORIZED"    -> "[black] mqtt unauthorised"))]

\* _mqtt.loop(): the MQTT client pumped once, with what it does this time.
MqttLoop(d, act, cfgCb, cmdCb, id, adopt) ==
  LET d1 == [d EXCEPT !.trace = Append(@, Ev("mqtt.loop"))]
  IN  CASE act.kind = "idle"         -> d1
        [] act.kind = "connected"    -> MqttConnectedCb(d1, id, adopt)
        [] act.kind = "disconnected" -> MqttDisconnectedCb(d1, act.state)
        [] act.kind = "message"      -> MqttCallback(d1, act.msg, cfgCb, cmdCb)

\* _server.available() and _api.loop(&client): an adopt request is answered
\* with the info _apiAdopt builds.
RestLoop(d, rest, adopt) ==
  [d EXCEPT !.trace = @ \o <<Ev("server.available"), Ev("api.loop")>> \o
                      (IF rest = "adopt" THEN <<EvA("api.adopt", adopt)>> ELSE <<>>)]

\* "_screen.loop()" at the end of loop().
ScreenLoop(d) == [d EXCEPT !.trace = Append(@, Ev("screen.loop"))]

\* A mutant of GetAdopt: the document reports the active brightness of the
\* LCD in place of the free heap.
GetAdoptReadingLcd(cfg, cmd, mac, env) ==
  ApiAdopt(cfg, cmd, mac, [env EXCEPT !.freeHeap = lcd.brightnessOn])

\* A mutant of GetAdopt: the document built first is kept and handed out
\* again.
GetAdoptCached(cfg, cmd, mac, env) ==
  IF prevAdopt.out # JNull THEN prevAdopt.out ELSE ApiAdopt(cfg, cmd, mac, env)

\* _api.getAdopt(json), and the adopt request of the REST API: the callback
\* registered with _api.onAdopt builds the document from the schema
\* fragments, the MAC and the readings as they are now.
GetAdopt(cfg, cmd, mac, env) == ApiAdopt(cfg, cmd, mac, env)

\* A mutant of LoopBody: the display is ticked only while the link is up.
LoopBodyTickInside(d, up, act, rest, cfgCb, cmdCb, id, adopt) ==
  IF up
  THEN LET d1 == MqttLoop([d EXCEPT !.trace = Append(@, Ev("Ethernet.maintain"))],
                          act, cfgCb, cmdCb, id, adopt)
       IN  IF d1.restarted THEN d1 ELSE ScreenLoop(RestLoop(d1, rest, adopt))
  ELSE d

\* A mutant of LoopBody: MQTT and the REST API are pumped whatever the link.
LoopBodyNoLinkCheck(d, up, act, rest, cfgCb, cmdCb, id, adopt) ==
  LET d1 == MqttLoop([d EXCEPT !.trace = Append(@, Ev("Ethernet.maintain"))],
                     act, cfgCb, cmdCb, id, adopt)
  IN  IF d1.restarted THEN d1 ELSE ScreenLoop(RestLoop(d1, rest, adopt))

\* The body of loop(): with the link up, maintain the lease and pump MQTT
\* and the REST API; then tick the display.  A restart inside the MQTT pump
\* ends the program there.
LoopBody(d, up, act, rest, cfgCb, cmdCb, id, adopt) ==
  IF up
  THEN LET d1 == MqttLoop([d EXCEPT !.trace = Append(@, Ev("Ethernet.maintain"))],
                          act, cfgCb, cmdCb, id, adopt)
       IN  IF d1.restarted THEN d1 ELSE ScreenLoop(RestLoop(d1, rest, adopt))
  ELSE ScreenLoop(d)

\* What the collaborators can do in this state: before begin() no callback
\* is registered and the server is not listening; a connect completes only
\* from the disconnected state and a frame arrives only on a connection.
\* With the link down loop() polls neither collaborator, and the platform
\* readings are taken only when adoption info is built, so inputs nobody
\* reads are not drawn.
CanDo(act, rest, env) ==
  /\ act.kind = "connected" => phase = "running" /\ ~mqttConnected
  /\ act.kind = "disconnected" => phase = "running"
  /\ act.kind = "message" => phase = "running" /\ mqttConnected
  /\ rest = "adopt" => phase = "running"
  /\ ~link => act.kind = "idle" /\ rest = "idle"
  /\ (act.kind # "connected" /\ rest # "adopt") => env = NoReading

Loop(act, rest, env) ==
  /\ phase # "reset"
  /\ CanDo(act, rest, env)
  /\ LET d0 == [trace |-> <<>>, lcd |-> lcd, connected |-> mqttConnected,
                logTopic |-> logTopic, restarted |-> FALSE]
         adopt == GetAdopt(fwConfigSchema, fwCommandSchema, ethMac, env)
         d == LoopBody(d0, link, act, rest, onConfig, onCommand, clientId, adopt)
     IN  IF d.restarted
         THEN ResetTo(Op("loop", EnvJson(env)), d.trace)
         ELSE /\ trace' = d.trace
              /\ lcd' = d.lcd
              /\ mqttConnected' = d.connected
              /\ logTopic' = d.logTopic
              /\ op' = Op("loop", EnvJson(env))
              /\ prevAdopt' = Remember
              /\ ret' = "none"
              /\ UNCHANGED <<phase, hardware, link, onConfig, onCommand, fwConfigSchema,
                             fwCommandSchema, ethMac, clientId, lastConfigPayload,
                             lastCommandPayload, configDropped, firstBegin>>

(***************************************************************************)
(* publishStatus / publishTelemetry.                                       *)
(***************************************************************************)
\* char event[32]
EventBufferSize == 32

\* A mutant of EventText: type and event are both printed even when they
\* are equal.
EventTextNoCollapse(json) ==
  LET head == "[" \o Pad3(AsUint8(Get(json, "index"))) \o "]"
  IN  IF ContainsKey(json, "type") /\ ContainsKey(json, "event")
      THEN head \o " " \o Get(json, "type").s \o " " \o Get(json, "event").s
      ELSE IF ContainsKey(json, "type") THEN head \o " " \o Get(json, "type").s
      ELSE IF ContainsKey(json, "event") THEN head \o " " \o Get(json, "event").s
      ELSE head

\* The text the sprintf_P calls of publishStatus build in `event`: "[%3d]"
\* of the index as a byte, then " type", " event" or " type event".  The
\* later calls pass `event` itself as their first %s argument; the C
\* library of this build copies that prefix onto itself, so the text is
\* the concatenation.
EventText(json) ==
  LET head == "[" \o Pad3(AsUint8(Get(json, "index"))) \o "]"
      type == Get(json, "type").s
      event == Get(json, "event").s
  IN  IF ContainsKey(json, "type") /\ ContainsKey(json, "event")
      THEN IF type = event
           THEN head \o " " \o type
           ELSE head \o " " \o type \o " " \o event
      ELSE IF ContainsKey(json, "type") THEN head \o " " \o type
      ELSE IF ContainsKey(json, "event") THEN head \o " " \o event
      ELSE head

\* The text and its terminator do not fit the event buffer: sprintf_P
\* writes past its end.
Overruns(json) == ContainsKey(json, "index") /\ Len(EventText(json)) + 1 > EventBufferSize

\* The first part of publishStatus: the event shown on the LCD when the
\* payload has an index.
ShowEvent(json) ==
  IF ContainsKey(json, "index") THEN <<EvA("screen.showEvent", JStr(EventText(json)))>> ELSE <<>>

\* The common tail of both publish helpers: return false with the link
\* down; otherwise publish, pulse the TX indicator on success and return
\* the MQTT layer's result.
PublishTail(up, call, json, mqttOk) ==
  IF ~up
  THEN [trace |-> <<Ev("Ethernet.linkStatus")>>, ret |-> "false"]
  ELSE [trace |-> <<Ev("Ethernet.linkStatus"), EvA(call, json),
                    EvA("mqtt.result", JBool(mqttOk))>> \o
                  (IF mqttOk THEN <<Ev("screen.triggerMqttTxLed")>> ELSE <<>>),
        ret |-> IF mqttOk THEN "true" ELSE "false"]

\* The MQTT layer publishes only on a connection, and is asked only with
\* the link up.
CanPublish(mqttOk) == mqttOk => (link /\ mqttConnected)

\* publishStatus on a payload that fits the buffer (or has no index).
StatusSteps(up, json, mqttOk) ==
  LET t == PublishTail(up, "mqtt.publishStatus", json, mqttOk)
  IN  [t EXCEPT !.trace = ShowEvent(json) \o @]

\* publishStatus.  Writing past the end of `event` is undefined behaviour:
\* the call may go on as if the buffer were large enough, or the smashed
\* stack crashes the device when the call is to return, and it resets.
PublishStatus(json, mqttOk, crash) ==
  /\ phase # "reset"
  /\ CanPublish(mqttOk)
  /\ crash => Overruns(json)
  /\ LET r == StatusSteps(link, json, mqttOk)
     IN  IF crash
         THEN ResetTo(Op("publishStatus", json), Append(r.trace, Ev("crash")))
         ELSE /\ trace' = r.trace
              /\ ret' = r.ret
              /\ op' = Op("publishStatus", json)
              /\ prevAdopt' = Remember
              /\ UNCHANGED <<phase, hardware, link, onConfig, onCommand, fwConfigSchema,
                             fwCommandSchema, lcd, ethMac, clientId, mqttConnected, logTopic,
                             lastConfigPayload, lastCommandPayload, configDropped, firstBegin>>

PublishTelemetry(json, mqttOk) ==
  /\ phase # "reset"
  /\ CanPublish(mqttOk)
  /\ LET r == PublishTail(link, "mqtt.publishTelemetry", json, mqttOk)
     IN  trace' = r.trace /\ ret' = r.ret
  /\ op' = Op("publishTelemetry", json)
  /\ prevAdopt' = Remember
  /\ UNCHANGED <<phase, hardware, link, onConfig, onCommand, fwConfigSchema, fwCommandSchema,
                 lcd, ethMac, clientId, mqttConnected, logTopic, lastConfigPayload,
                 lastCommandPayload, configDropped, firstBegin>>

(***************************************************************************)
(* Scopes: the sets the inputs of the operations are drawn from.  Every    *)
(* scope runs every operation; each widens the inputs of one part of the   *)
(* facade and keeps one representative of the others.                      *)
(***************************************************************************)
OneBoard == {[mac |-> <<170, 187, 204, 221, 238, 240>>, persisted |-> ""]}

OneCallbackPair == {<<"fwConfigA", "fwCommandA">>}

OneOutcome == {<<"LCD_INFO_LOGO_FROM_SPIFFS", TRUE>>}

OneConfigSchema == {JObj([foo |-> Property("string")])}

OneCommandSchema == {JObj([foo |-> Property("string")])}

MessagesOf(kinds) == {[kind |-> "message", state |-> "", msg |-> m] : m \in kinds}

FewActivities ==
  {a \in MqttActivities : a.kind \in {"idle", "connected"} \/ a.state = "MQTT_CONNECTION_LOST"} \cup
  MessagesOf({[kind |-> "config", json |-> JObj([activeBrightnessPercent |-> JInt(80),
                                                  mySetting |-> JInt(42)])],
              [kind |-> "command", json |-> JObj([restart |-> JBool(TRUE), foo |-> JInt(1)])]})

OneStatus == {JObj([index |-> JInt(7), type |-> JStr("button"), event |-> JStr("button")])}

OneTelemetry == {JObj([temperature |-> JInt(21)])}

\* Message dispatch and the loop: every MQTT activity, every callback pair.
DispatchScope ==
  [boards |-> OneBoard, callbacks |-> CallbackPairs, outcomes |-> OneOutcome,
   configSchemas |-> OneConfigSchema, commandSchemas |-> OneCommandSchema,
   activities |-> MqttActivities, rest |-> RestActivities, env |-> {NoReading},
   status |-> OneStatus, telemetry |-> OneTelemetry, adoptionHistory |-> FALSE]

\* Schema composition and adoption: every schema fragment, every reading.
SchemaScope ==
  [boards |-> OneBoard, callbacks |-> OneCallbackPair, outcomes |-> OneOutcome,
   configSchemas |-> FwConfigSchemas, commandSchemas |-> FwCommandSchemas,
   activities |-> FewActivities, rest |-> RestActivities, env |-> EnvSamples,
   status |-> OneStatus, telemetry |-> OneTelemetry, adoptionHistory |-> FALSE]

\* Start-up: every board, every outcome of begin().
BeginScope ==
  [boards |-> Boards, callbacks |-> OneCallbackPair, outcomes |-> BeginOutcomes,
   configSchemas |-> OneConfigSchema, commandSchemas |-> OneCommandSchema,
   activities |-> FewActivities, rest |-> RestActivities, env |-> {NoReading},
   status |-> OneStatus, telemetry |-> OneTelemetry, adoptionHistory |-> FALSE]

\* The publish helpers: every status and telemetry payload.
PublishScope ==
  [boards |-> OneBoard, callbacks |-> OneCallbackPair, outcomes |-> OneOutcome,
   configSchemas |-> OneConfigSchema, commandSchemas |-> OneCommandSchema,
   activities |-> FewActivities, rest |-> RestActivities, env |-> {NoReading},
   status |-> StatusPayloads, telemetry |-> TelemetryPayloads, adoptionHistory |-> FALSE]

\* Adoption builds over time: two schema fragments, every reading, with the
\* record of the previous build kept.
AdoptScope ==
  [boards |-> OneBoard, callbacks |-> OneCallbackPair, outcomes |-> OneOutcome,
   configSchemas |-> {j \in FwConfigSchemas : j.m # EmptyMap}, commandSchemas |-> OneCommandSchema,
   activities |-> FewActivities, rest |-> RestActivities, env |-> EnvSamples,
   status |-> OneStatus, telemetry |-> OneTelemetry, adoptionHistory |-> TRUE]

NextIn(D) ==
  \/ PowerOn
  \/ \E cbs \in D.callbacks, met \in D.outcomes : Begin(cbs[1], cbs[2], met[1], met[2])
  \/ LinkChange
  \/ \E act \in D.activities, rest \in D.rest, env \in D.env : Loop(act, rest, env)
  \/ \E json \in D.configSchemas : SetConfigSchema(json)
  \/ \E json \in D.commandSchemas : SetCommandSchema(json)
  \/ \E json \in D.status, mqttOk \in BOOLEAN, crash \in BOOLEAN :
       PublishStatus(json, mqttOk, crash)
  \/ \E json \in D.telemetry, mqttOk \in BOOLEAN : PublishTelemetry(json, mqttOk)

Init == InitIn(DispatchScope)

Next == NextIn(DispatchScope)

\* The facade under message dispatch.
Spec == Init /\ [][Next]_vars

\* The facade under schema composition and adoption.
SpecSchema == InitIn(SchemaScope) /\ [][NextIn(SchemaScope)]_vars

\* The facade under start-up.
SpecBegin == InitIn(BeginScope) /\ [][NextIn(BeginScope)]_vars

\* The facade under the publish helpers.
SpecPublish == InitIn(PublishScope) /\ [][NextIn(PublishScope)]_vars

\* The facade under repeated adoption builds.
SpecAdopt == InitIn(AdoptScope) /\ [][NextIn(AdoptScope)]_vars

(***************************************************************************)
(* Reading the record of the last operation.                               *)
(***************************************************************************)
\* The positions in `trace` of the calls named o.
At(o) == {i \in DOMAIN trace : trace[i].op = o}

Count(o) == Cardinality(At(o))

\* The four LCD keys of a config payload in the order _mqttConfig tests
\* them, the screen setter and the display field of each.
LcdKeys ==
  <<"activeBrightnessPercent", "inactiveBrightnessPercent", "activeDisplaySeconds",
    "eventDisplaySeconds">>

LcdSetter ==
  [activeBrightnessPercent   |-> "screen.setBrightnessOn",
   inactiveBrightnessPercent |-> "screen.setBrightnessDim",
   activeDisplaySeconds      |-> "screen.setOnTimeDisplay",
   eventDisplaySeconds       |-> "screen.setOnTimeEvent"]

LcdField ==
  [activeBrightnessPercent   |-> "brightnessOn",
   inactiveBrightnessPercent |-> "brightnessDim",
   activeDisplaySeconds      |-> "onTimeDisplay",
   eventDisplaySeconds       |-> "onTimeEvent"]

\* The positions of the LCD setter calls.
SetterCalls == {i \in DOMAIN trace : \E n \in DOMAIN LcdKeys : trace[i].op = LcdSetter[LcdKeys[n]]}

\* The setter calls a config payload asks for.
PlatformCalls(json) ==
  LET ks == SelectSeq(LcdKeys, LAMBDA k : ContainsKey(json, k))
  IN  [n \in 1..Len(ks) |-> EvA(LcdSetter[ks[n]], JInt(AsInt(Get(json, ks[n]))))]

\* The positions at which a command with `restart` present and true, and a
\* config message, were received.
RestartReceived ==
  {i \in At("mqtt.receive") :
     /\ trace[i].who = "command"
     /\ ContainsKey(trace[i].arg, "restart")
     /\ AsBool(Get(trace[i].arg, "restart"))}

ConfigReceived == {i \in At("mqtt.receive") : trace[i].who = "config"}

\* The adoption documents the last operation produced, over the REST API
\* or published on connect.
Adoptions == {trace[i].arg : i \in At("api.adopt") \cup At("mqtt.publishAdopt")}

ConfigProperties(adopt) == Get(Get(adopt, "configSchema"), "properties")

CommandProperties(adopt) == Get(Get(adopt, "commandSchema"), "properties")

(***************************************************************************)
(* Message dispatch and loop().                                            *)
(***************************************************************************)
\* C1: a received command whose `restart` is present and true resets the
\* device: ESP.restart() is the call right after the receive and the last
\* thing the program does, and no firmware callback is invoked.
C1_RestartIsTerminal ==
  \A i \in RestartReceived :
    /\ phase = "reset"
    /\ Len(trace) = i + 1
    /\ trace[i + 1] = Ev("ESP.restart")
    /\ At("callback") = {}

\* A restart command that carries another key arrived while a firmware
\* command callback was registered, and the device reset.
C1_Witness ==
  /\ phase = "reset"
  /\ onCommand # NULL
  /\ \E i \in RestartReceived : ContainsKey(trace[i].arg, "foo")

\* C2: after a config message is received, the setters of the LCD keys it
\* holds run first, each with the key's value as an integer, and leave that
\* value in the display; then the registered firmware config callback runs
\* exactly once, with the payload as received.  No callback precedes a
\* setter.
C2_PlatformThenCallback ==
  \A i \in ConfigReceived :
    LET json == trace[i].arg
        calls == PlatformCalls(json)
        n == Len(calls)
    IN  /\ Len(trace) >= i + n
        /\ SubSeq(trace, i + 1, i + n) = calls
        /\ \A k \in DOMAIN LcdField :
             ContainsKey(json, k) => lcd[LcdField[k]] = AsInt(Get(json, k))
        /\ \A c \in At("callback"), q \in SetterCalls : q < c
        /\ onConfig # NULL =>
             /\ Len(trace) >= i + n + 1
             /\ trace[i + n + 1] = EvCb(onConfig, json)
             /\ Count("callback") = 1
        /\ onConfig = NULL => Count("callback") = 0

\* A config message with a platform key and a firmware-only key was
\* dispatched while a firmware config callback was registered.
C2_Witness ==
  /\ op.name = "loop"
  /\ onConfig # NULL
  /\ Count("callback") = 1
  /\ \E i \in ConfigReceived :
       /\ ContainsKey(trace[i].arg, "activeBrightnessPercent")
       /\ ContainsKey(trace[i].arg, "mySetting")
       /\ lcd.brightnessOn = 80

\* C4 as stated: every loop() invocation ticks the display exactly once.
C4_EveryLoopTicksOnce == op.name = "loop" => Count("screen.loop") = 1

\* C4: every loop() invocation that returns ticks the display exactly once,
\* as its last step, whatever the link state; an invocation in which a
\* restart command is dispatched resets the device and never reaches the
\* tick.
C4_ReturningLoopTicksOnce ==
  op.name = "loop" =>
    IF phase = "reset"
    THEN RestartReceived # {} /\ Count("screen.loop") = 0
    ELSE /\ Count("screen.loop") = 1
         /\ trace[Len(trace)] = Ev("screen.loop")
         /\ RestartReceived = {}

\* loop() ran with the link down after begin(), and ticked the display.
C4_Witness ==
  /\ op.name = "loop"
  /\ phase = "running"
  /\ ~link
  /\ trace = <<Ev("screen.loop")>>

\* C5: a loop() invocation pumps the MQTT client and the REST API only with
\* the link up; with the link down it receives no message, applies no LCD
\* setter, requests no restart and invokes no firmware callback.
C5_PumpedOnlyWithLink ==
  (op.name = "loop" /\ ~link) =>
    /\ At("Ethernet.maintain") = {}
    /\ At("mqtt.loop") = {}
    /\ At("server.available") = {}
    /\ At("api.loop") = {}
    /\ At("mqtt.receive") = {}
    /\ SetterCalls = {}
    /\ At("ESP.restart") = {}
    /\ At("callback") = {}

\* loop() ran with the link down on a device that had an MQTT connection
\* and firmware callbacks.
C5_Witness ==
  /\ op.name = "loop"
  /\ ~link
  /\ phase = "running"
  /\ mqttConnected
  /\ onConfig # NULL
  /\ onCommand # NULL

(***************************************************************************)
(* publishStatus.                                                          *)
(***************************************************************************)
\* C3 as stated: publishStatus returns false with the link down, without
\* asking the MQTT layer to publish; with the link up it returns what the
\* MQTT layer returned; and when the payload has an index the LCD event is
\* shown before the link is checked.
C3_PublishStatusResult ==
  op.name = "publishStatus" =>
    /\ ~link => (ret = "false" /\ At("mqtt.publishStatus") = {})
    /\ link => \E i \in At("mqtt.result") :
                 ret = (IF AsBool(trace[i].arg) THEN "true" ELSE "false")
    /\ ContainsKey(op.arg, "index") =>
         \E e \in At("screen.showEvent"), l \in At("Ethernet.linkStatus") : e < l

(***************************************************************************)
(* begin().                                                                *)
(***************************************************************************)
\* C6: begin() initialises the display, then the network, then MQTT, then
\* the REST API, each once; the default client id is set before the REST
\* API loads the stored settings, and after begin() the client id in effect
\* is the stored one when there is one, the default that was set otherwise.
C6_BeginOrder ==
  op.name = "begin" =>
    /\ Count("screen.begin") = 1
    /\ Count("Ethernet.begin") = 1
    /\ Count("mqtt.setClientId") = 1
    /\ Count("api.begin") = 1
    /\ \E a \in At("screen.begin"), b \in At("Ethernet.begin"),
          c \in At("mqtt.setClientId"), d \in At("api.begin") :
         /\ a < b
         /\ b < c
         /\ c < d
         /\ clientId = IF persistedClientId # "" THEN persistedClientId ELSE trace[c].arg.s

\* begin() ran on a board whose settings file holds a client id, and that
\* id, not the default, is in effect.
C6_Witness ==
  /\ op.name = "begin"
  /\ persistedClientId = "rack-kitchen"
  /\ clientId = "rack-kitchen"
  /\ \E c \in At("mqtt.setClientId") : trace[c].arg.s # clientId

(***************************************************************************)
(* Schema composition.                                                     *)
(***************************************************************************)
\* The deep merge of a firmware value f with a platform value p: where both
\* are objects the members are merged, recursively; anywhere else the
\* platform value stands.
RECURSIVE DeepMerge(_, _)
DeepMerge(f, p) ==
  IF IsObject(f) /\ IsObject(p)
  THEN JObj([k \in (DOMAIN f.m) \cup (DOMAIN p.m) |->
               IF k \notin DOMAIN p.m THEN f.m[k]
               ELSE IF k \notin DOMAIN f.m THEN p.m[k]
               ELSE DeepMerge(f.m[k], p.m[k])])
  ELSE p

\* The platform's config properties.
PlatformConfigProperties ==
  [activeBrightnessPercent   |-> ActiveBrightnessPercentSchema,
   inactiveBrightnessPercent |-> InactiveBrightnessPercentSchema,
   activeDisplaySeconds      |-> ActiveDisplaySecondsSchema,
   eventDisplaySeconds       |-> EventDisplaySecondsSchema]

\* C7 as stated: configSchema.properties of every adoption document is the
\* recursive deep merge of the firmware config schema with the platform
\* config properties.
C7_PropertiesAreDeepMerge ==
  \A a \in Adoptions :
    ConfigProperties(a) = DeepMerge(JObj(lastConfigPayload.m), JObj(PlatformConfigProperties))

\* C7: configSchema.properties of every adoption document holds the members
\* of the firmware config schema and the four platform properties; under a
\* platform key it holds exactly the platform's object, whatever the
\* firmware schema has there, and under any other key the firmware's value
\* unchanged.
C7_PlatformKeysReplaced ==
  \A a \in Adoptions :
    LET p == ConfigProperties(a)
    IN  /\ IsObject(p)
        /\ DOMAIN p.m = (DOMAIN lastConfigPayload.m) \cup (DOMAIN PlatformConfigProperties)
        /\ \A k \in DOMAIN p.m :
             p.m[k] = IF k \in DOMAIN PlatformConfigProperties
                      THEN PlatformConfigProperties[k]
                      ELSE lastConfigPayload.m[k]

\* An adoption document was built while the firmware schema defined
\* activeBrightnessPercent as an object with a sub-key of its own: the
\* sub-key is gone, the firmware-only property is there.
C7_Witness ==
  \E a \in Adoptions :
    /\ ContainsKey(Get(lastConfigPayload, "activeBrightnessPercent"), "default")
    /\ ~ContainsKey(Get(ConfigProperties(a), "activeBrightnessPercent"), "default")
    /\ ContainsKey(ConfigProperties(a), "baz")

\* An LCD property of the documented shape: an integer from 0 to `maximum`.
IsBoundedInteger(property, maximum) ==
  /\ IsObject(property)
  /\ Get(property, "type") = JStr("integer")
  /\ Get(property, "minimum") = JInt(0)
  /\ Get(property, "maximum") = JInt(maximum)

\* C8: configSchema.properties of every adoption document has the two
\* brightness keys as integer 0..100 and the two display-time keys as
\* integer 0..600, whatever the firmware config schema holds.
C8_LcdKeysBounded ==
  \A a \in Adoptions :
    LET p == ConfigProperties(a)
    IN  /\ IsBoundedInteger(Get(p, "activeBrightnessPercent"), 100)
        /\ IsBoundedInteger(Get(p, "inactiveBrightnessPercent"), 100)
        /\ IsBoundedInteger(Get(p, "activeDisplaySeconds"), 600)
        /\ IsBoundedInteger(Get(p, "eventDisplaySeconds"), 600)

\* An adoption document was built while the firmware schema defined LCD
\* keys of its own, one as a string property with another maximum and one
\* as a scalar.
C8_Witness ==
  /\ Adoptions # {}
  /\ Get(Get(lastConfigPayload, "activeBrightnessPercent"), "type") = JStr("string")
  /\ Get(Get(lastConfigPayload, "activeBrightnessPercent"), "maximum") = JInt(50)
  /\ Get(lastConfigPayload, "eventDisplaySeconds") = JInt(5)

\* C9: commandSchema.properties.restart.type of every adoption document is
\* "boolean", whatever the firmware command schema holds.
C9_RestartIsBoolean ==
  \A a \in Adoptions : Get(Get(CommandProperties(a), "restart"), "type") = JStr("boolean")

\* An adoption document was built while the firmware command schema defined
\* `restart` itself, as a string.
C9_Witness ==
  /\ Adoptions # {}
  /\ Get(Get(lastCommandPayload, "restart"), "type") = JStr("string")

\* C10: the stored firmware config (command) fragment has exactly the
\* members of the payload of the last setConfigSchema (setCommandSchema)
\* call, and the properties of every adoption document are those members
\* and the platform's, nothing of an earlier call.
C10_LastWriteWins ==
  /\ fwConfigSchema.m = lastConfigPayload.m
  /\ fwCommandSchema.m = lastCommandPayload.m
  /\ \A a \in Adoptions :
       /\ DOMAIN ConfigProperties(a).m =
            (DOMAIN lastConfigPayload.m) \cup (DOMAIN PlatformConfigProperties)
       /\ DOMAIN CommandProperties(a).m = (DOMAIN lastCommandPayload.m) \cup {"restart"}

\* An adoption document was built after a setConfigSchema call whose payload
\* lacked a property the fragment stored by an earlier call had.
C10_Witness ==
  /\ configDropped
  /\ lastConfigPayload.m # EmptyMap
  /\ Adoptions # {}

(***************************************************************************)
(* The Ethernet MAC and the default client id.                             *)
(***************************************************************************)
\* C11: after begin() the Ethernet MAC has the first five bytes of the base
\* MAC and a last byte of (base + 3) mod 256, nothing carried; the MAC
\* handed to Ethernet.begin is that one, and the default client id set is
\* the lowercase hex of its bytes 3, 4, 5, six characters.  Base
\* AA:BB:CC:DD:EE:F0 gives AA:BB:CC:DD:EE:F3 and ddeef3.
C11_MacAndClientId ==
  op.name = "begin" =>
    /\ \A n \in 1..5 : ethMac[n] = baseMac[n]
    /\ ethMac[6] = (baseMac[6] + 3) % 256
    /\ \A e \in At("Ethernet.begin") : trace[e].arg.s = MacDisplay(ethMac)
    /\ \A c \in At("mqtt.setClientId") :
         /\ trace[c].arg.s = Hex2Lower(ethMac[4]) \o Hex2Lower(ethMac[5]) \o Hex2Lower(ethMac[6])
         /\ Len(trace[c].arg.s) = 6
    /\ baseMac = <<170, 187, 204, 221, 238, 240>> =>
         /\ \A e \in At("Ethernet.begin") : trace[e].arg.s = "AA:BB:CC:DD:EE:F3"
         /\ \A c \in At("mqtt.setClientId") : trace[c].arg.s = "ddeef3"
    /\ baseMac = <<0, 17, 34, 51, 255, 253>> =>
         /\ \A e \in At("Ethernet.begin") : trace[e].arg.s = "00:11:22:33:FF:00"
         /\ \A c \in At("mqtt.setClientId") : trace[c].arg.s = "33ff00"

\* begin() ran on a board whose base MAC ends in FF:FD: the last byte
\* wrapped to 00 and the byte before it is still FF.
C11_Witness ==
  /\ op.name = "begin"
  /\ baseMac[5] = 255
  /\ baseMac[6] = 253
  /\ ethMac[5] = 255
  /\ ethMac[6] = 0
  /\ \E c \in At("mqtt.setClientId") : trace[c].arg.s = "33ff00"

(***************************************************************************)
(* The firmware callbacks.                                                 *)
(***************************************************************************)
\* C12 as stated: once begin() has run, the stored config and command
\* callbacks are the ones passed to the first begin() call, whatever
\* follows.
C12_CallbacksOfFirstBegin ==
  (phase = "running" /\ firstBegin # <<>>) => <<onConfig, onCommand>> = firstBegin

\* C12: every begin() call stores the callbacks passed to it, a further
\* begin() included; no other operation of a running device (loop and what
\* it dispatches, the schema setters, the publishes, a link change)
\* changes the stored callbacks.
C12_CallbacksOfLastBegin ==
  [][/\ op'.name = "begin" =>
          /\ onConfig' = op'.arg.m.config.s
          /\ onCommand' = op'.arg.m.command.s
     /\ op'.name \notin {"begin", "OXRS_Black"} =>
          /\ onConfig' = onConfig
          /\ onCommand' = onCommand]_vars

\* A config message was dispatched to the callback a further begin() call
\* stored in place of the one the first begin() call was given.
C12_Witness ==
  /\ op.name = "loop"
  /\ firstBegin # <<>>
  /\ onConfig # NULL
  /\ onConfig # firstBegin[1]
  /\ \E c \in At("callback") : trace[c].who = onConfig

(***************************************************************************)
(* The LCD event of publishStatus and the TX indicator.                    *)
(***************************************************************************)
\* A number in a field of three characters, right aligned: padded on the
\* left with spaces, and with zeros.
RightAligned3(n) == IF n < 10 THEN "  " \o DecStr(n) ELSE IF n < 100 THEN " " \o DecStr(n) ELSE DecStr(n)

ZeroPadded3(n) == IF n < 10 THEN "00" \o DecStr(n) ELSE IF n < 100 THEN "0" \o DecStr(n) ELSE DecStr(n)

\* What follows the bracketed index in the event text of a status payload.
EventTail(json) ==
  LET hasType == ContainsKey(json, "type")
      hasEvent == ContainsKey(json, "event")
  IN  CASE hasType /\ hasEvent /\ Get(json, "type") # Get(json, "event") ->
             " " \o Get(json, "type").s \o " " \o Get(json, "event").s
        [] hasType /\ hasEvent /\ Get(json, "type") = Get(json, "event") ->
             " " \o Get(json, "type").s
        [] hasType /\ ~hasEvent -> " " \o Get(json, "type").s
        [] ~hasType /\ hasEvent -> " " \o Get(json, "event").s
        [] OTHER -> ""

\* The index of a status payload is a number that fits a byte.
HasByteIndex(json) ==
  /\ Get(json, "index").t = "int"
  /\ Get(json, "index").n >= 0
  /\ Get(json, "index").n <= 255

C14_IndexZeroPadded ==
  op.name = "publishStatus" =>
    \A e \in At("screen.showEvent") :
      trace[e].arg.s = "[" \o ZeroPadded3(Get(op.arg, "index").n) \o "]" \o EventTail(op.arg)

\* C14: the number between the brackets is the payload's index read as an
\* unsigned byte (an index that does not fit a byte reads as 0), right
\* aligned in a width of three and padded with spaces.
C14_IndexSpacePadded ==
  op.name = "publishStatus" =>
    \A e \in At("screen.showEvent") :
      trace[e].arg.s =
        "[" \o RightAligned3(IF HasByteIndex(op.arg) THEN Get(op.arg, "index").n ELSE 0) \o "]"
            \o EventTail(op.arg)

\* publishStatus showed the event of a payload with the one-digit index 7:
\* two spaces stand before the digit.
C14_Witness ==
  /\ op.name = "publishStatus"
  /\ op.arg = JObj([index |-> JInt(7), event |-> JStr("press")])
  /\ \E e \in At("screen.showEvent") : trace[e].arg.s = "[  7] press"

\* C17 as stated: publishStatus and publishTelemetry pulse the TX indicator
\* exactly when the call returns true; a call with the link down, or whose
\* MQTT publish fails, pulses nothing; publishTelemetry shows no LCD event.
C17_TxPulseIffTrue ==
  op.name \in {"publishStatus", "publishTelemetry"} =>
    /\ Count("screen.triggerMqttTxLed") = IF ret = "true" THEN 1 ELSE 0
    /\ ~link => Count("screen.triggerMqttTxLed") = 0
    /\ (\E i \in At("mqtt.result") : ~AsBool(trace[i].arg)) => Count("screen.triggerMqttTxLed") = 0
    /\ op.name = "publishTelemetry" => Count("screen.showEvent") = 0

\* C19 as stated: the event text publishStatus builds, with its terminator,
\* takes at most the 32 bytes of the event buffer.
C19_EventFitsBuffer ==
  op.name = "publishStatus" =>
    \A e \in At("screen.showEvent") : Len(trace[e].arg.s) + 1 <= EventBufferSize

(***************************************************************************)
(* The LCD settings.                                                       *)
(***************************************************************************)
\* C16: a loop() call changes an LCD setting only if it received a config
\* message whose payload has the key of that setting; a loop() call that
\* received a command message, the publishes and the schema setters change
\* no LCD setting.
C16_LcdFrame ==
  [][/\ op'.name \in {"setConfigSchema", "setCommandSchema", "publishStatus",
                      "publishTelemetry"} => lcd' = lcd
     /\ op'.name = "loop" =>
          /\ \A k \in DOMAIN LcdField :
               lcd'[LcdField[k]] # lcd[LcdField[k]] =>
                 \E i \in DOMAIN trace' :
                   /\ trace'[i].op = "mqtt.receive"
                   /\ trace'[i].who = "config"
                   /\ ContainsKey(trace'[i].arg, k)
          /\ (\E i \in DOMAIN trace' :
                trace'[i].op = "mqtt.receive" /\ trace'[i].who # "config") => lcd' = lcd]_vars

\* A config message without activeBrightnessPercent was dispatched when
\* the active brightness had been set to 80 by an earlier message: the
\* other three settings are the payload's, the active brightness is still
\* 80.
C16_Witness ==
  /\ op.name = "loop"
  /\ \E i \in ConfigReceived :
       /\ ~ContainsKey(trace[i].arg, "activeBrightnessPercent")
       /\ ContainsKey(trace[i].arg, "inactiveBrightnessPercent")
  /\ lcd.brightnessOn = 80
  /\ lcd.brightnessDim = 20
  /\ lcd.onTimeDisplay = 60
  /\ lcd.onTimeEvent = 5

(***************************************************************************)
(* Adoption builds over time.                                              *)
(***************************************************************************)
\* The properties of an adoption document are those of the fragments cfg
\* and cmd and the platform's: every firmware member under a key that is
\* not the platform's is there unchanged.
Reflects(adopt, cfg, cmd) ==
  /\ DOMAIN ConfigProperties(adopt).m = (DOMAIN cfg.m) \cup (DOMAIN PlatformConfigProperties)
  /\ \A k \in (DOMAIN cfg.m) \ (DOMAIN PlatformConfigProperties) :
       ConfigProperties(adopt).m[k] = cfg.m[k]
  /\ DOMAIN CommandProperties(adopt).m = (DOMAIN cmd.m) \cup {"restart"}
  /\ \A k \in (DOMAIN cmd.m) \ {"restart"} : CommandProperties(adopt).m[k] = cmd.m[k]

Connects == {i \in At("logger.println") : trace[i].arg = JStr("[black] mqtt connected")}

\* C18: every MQTT connect sets the log topic (that of the client id) and
\* then publishes one adoption document, and no adoption is published
\* otherwise; every adoption document, published on connect or served over
\* REST, shows the schema fragments as they are when it is built, and the
\* document of the build before still shows the fragments as they were
\* then.
C18_ConnectPublishesAdoption ==
  op.name = "loop" =>
    /\ \A c \in Connects :
         /\ c >= 3
         /\ trace[c - 2] = EvA("logger.setTopic", JStr("log/" \o clientId))
         /\ trace[c - 1].op = "mqtt.publishAdopt"
         /\ logTopic = "log/" \o clientId
    /\ Count("mqtt.publishAdopt") = Cardinality(Connects)
    /\ Count("logger.setTopic") = Cardinality(Connects)
    /\ \A a \in Adoptions : Reflects(a, fwConfigSchema, fwCommandSchema)
    /\ prevAdopt.out # JNull => Reflects(prevAdopt.out, prevAdopt.cfg, prevAdopt.cmd)

\* An MQTT connect published adoption info after a setConfigSchema call
\* that followed an earlier adoption build: the new document has the
\* property `baz` of the new fragment, the earlier one has not.
C18_Witness ==
  /\ op.name = "loop"
  /\ Connects # {}
  /\ prevAdopt.out # JNull
  /\ prevAdopt.cfg # fwConfigSchema
  /\ ~ContainsKey(ConfigProperties(prevAdopt.out), "baz")
  /\ \E i \in At("mqtt.publishAdopt") : ContainsKey(ConfigProperties(trace[i].arg), "baz")
====
